---------------------------- MODULE Spec2Model ----------------------------
(***************************************************************************)
(* A model of scripts/parse_xaml_to_json.py: the text normalizers          *)
(* clean_header and clean_tag, the recursive menu classifier               *)
(* parse_menu_item_recursive and the document pass parse_xaml_insert_menu. *)
(*                                                                         *)
(* Python strings are sequences of one-character strings, so that          *)
(* str.replace, re.search and re.sub are computed character by character.  *)
(* Python values (None, str, list, dict) are records of one shape,         *)
(* [kind, text, keys, elems]; a dict keeps its keys in insertion order.    *)
(***************************************************************************)
EXTENDS Naturals, Sequences, FiniteSets

VARIABLES
    pc,            \* position of the call under way
    tag,           \* clean_tag: its argument
    tag_result,    \* clean_tag: its return value
    item,          \* parse_menu_item_recursive: its argument (an element)
    item_result,   \* parse_menu_item_recursive: its return value
    xaml_content,  \* parse_xaml_insert_menu: its argument (a token sequence)
    root,          \* parse_xaml_insert_menu: the element tree ET.fromstring built
    idx,           \* parse_xaml_insert_menu: children of root already visited
    result,        \* parse_xaml_insert_menu: the dict under construction
    returned       \* parse_xaml_insert_menu: its return value

vars == <<pc, tag, tag_result, item, item_result, xaml_content, root, idx,
          result, returned>>

-----------------------------------------------------------------------------
(* Bounds of the model. *)

\* clean_tag inputs are concatenations of at most MaxPieces fragments.
MaxPieces == 3
\* parse_menu_item_recursive inputs are element trees of at most MaxNodes elements.
MaxNodes == 4
\* ... and of at most MaxMergeNodes elements where sibling groups are merged.
MaxMergeNodes == 5
\* parse_xaml_insert_menu inputs hold at most MaxElems elements.
MaxElems == 4

-----------------------------------------------------------------------------
(* Strings. *)

Upper == {"A","B","C","D","E","F","G","H","I","J","K","L","M",
          "N","O","P","Q","R","S","T","U","V","W","X","Y","Z"}
Lower == {"a","b","c","d","e","f","g","h","i","j","k","l","m",
          "n","o","p","q","r","s","t","u","v","w","x","y","z"}
Digit == {"0","1","2","3","4","5","6","7","8","9"}

\* s[i:] of Python, i counted from 1.
From(s, i) == SubSeq(s, i, Len(s))

\* s.startswith(p)
startswith(s, p) == Len(s) >= Len(p) /\ SubSeq(s, 1, Len(p)) = p

\* s.endswith(p)
endswith(s, p) ==
    Len(s) >= Len(p) /\ SubSeq(s, Len(s) - Len(p) + 1, Len(s)) = p

\* s.replace(old, new): every non-overlapping occurrence, left to right.
RECURSIVE replace(_, _, _)
replace(s, old, new) ==
    IF Len(s) < Len(old) THEN s
    ELSE IF startswith(s, old)
         THEN new \o replace(From(s, Len(old) + 1), old, new)
         ELSE <<Head(s)>> \o replace(Tail(s), old, new)

\* Index of the last "." of s, 0 when there is none.
LastDot(s) ==
    IF \E i \in 1..Len(s) : s[i] = "."
    THEN CHOOSE i \in 1..Len(s) :
             s[i] = "." /\ \A j \in (i+1)..Len(s) : s[j] # "."
    ELSE 0

\* re.search(r'\.([^.}]+)}$', header) of a header that ends with "}": the
\* match starts at the last "." and group 1 is what lies between it and the
\* closing brace, which must be non-empty and hold no "}".  <<>> is no match.
SearchGroup(header) ==
    LET d == LastDot(header)
        g == SubSeq(header, d + 1, Len(header) - 1)
    IN  IF d = 0 \/ g = <<>> \/ (\E i \in 1..Len(g) : g[i] = "}")
        THEN <<>>
        ELSE g

\* Length of the run of upper-case letters s starts with.
RECURSIVE UpperRun(_)
UpperRun(s) ==
    IF s # <<>> /\ Head(s) \in Upper THEN 1 + UpperRun(Tail(s)) ELSE 0

\* re.sub(r'([A-Z]+)([A-Z][a-z])', r'\1 \2', s)
RECURSIVE SubAcronym(_)
SubAcronym(s) ==
    IF s = <<>> THEN <<>>
    ELSE LET r == UpperRun(s)
         IN  IF r >= 2 /\ Len(s) > r /\ s[r + 1] \in Lower
             THEN SubSeq(s, 1, r - 1) \o <<" ">> \o SubSeq(s, r, r + 1)
                      \o SubAcronym(From(s, r + 2))
             ELSE <<Head(s)>> \o SubAcronym(Tail(s))

\* re.sub(r'([a-z\d])([A-Z])', r'\1 \2', s)
RECURSIVE SubCamel(_)
SubCamel(s) ==
    IF s = <<>> THEN <<>>
    ELSE IF Len(s) >= 2 /\ s[1] \in (Lower \cup Digit) /\ s[2] \in Upper
         THEN <<s[1], " ", s[2]>> \o SubCamel(From(s, 3))
         ELSE <<Head(s)>> \o SubCamel(Tail(s))

clean_header(header) ==
    IF header = <<>> THEN <<>>
    ELSE IF startswith(header, <<"{">>) /\ endswith(header, <<"}">>)
              /\ SearchGroup(header) # <<>>
         THEN replace(SubCamel(SubAcronym(SearchGroup(header))), <<"_">>, <<" ">>)
         ELSE header

LT   == <<"&","l","t",";">>
GT   == <<"&","g","t",";">>
AMP  == <<"&","a","m","p",";">>
QUOT == <<"&","q","u","o","t",";">>
APOS == <<"&","a","p","o","s",";">>

clean_tag(t) ==
    IF t = <<>> THEN <<>>
    ELSE LET t1 == replace(t,  LT,   <<"<">>)
             t2 == replace(t1, GT,   <<">">>)
             t3 == replace(t2, AMP,  <<"&">>)
             t4 == replace(t3, QUOT, <<"\"">>)
             t5 == replace(t4, APOS, <<"'">>)
         IN  t5


-----------------------------------------------------------------------------
(* Python values. *)

None  == [kind |-> "None", text |-> <<>>, keys |-> <<>>, elems |-> <<>>]
Str(s)  == [kind |-> "str",  text |-> s,    keys |-> <<>>, elems |-> <<>>]
List(es) == [kind |-> "list", text |-> <<>>, keys |-> <<>>, elems |-> es]
Dict(ks, vs) == [kind |-> "dict", text |-> <<>>, keys |-> ks, elems |-> vs]
EmptyDict == Dict(<<>>, <<>>)

\* k in d
HasKey(d, k) == \E i \in 1..Len(d.keys) : d.keys[i] = k

\* d[k], for a key d has
Get(d, k) == d.elems[CHOOSE i \in 1..Len(d.keys) : d.keys[i] = k]

\* d[k] = v: a key d has keeps its place and takes the new value, a new
\* key goes last.
DictSet(d, k, v) ==
    IF HasKey(d, k)
    THEN LET i == CHOOSE j \in 1..Len(d.keys) : d.keys[j] = k
         IN  [d EXCEPT !.elems[i] = v]
    ELSE [d EXCEPT !.keys = Append(@, k), !.elems = Append(@, v)]

\* d.update(other)
RECURSIVE DictUpdate(_, _)
DictUpdate(d, other) ==
    IF other.keys = <<>> THEN d
    ELSE DictUpdate(DictSet(d, Head(other.keys), Head(other.elems)),
                    Dict(Tail(other.keys), Tail(other.elems)))

\* bool(v)
Truthy(v) ==
    CASE v.kind = "None" -> FALSE
      [] v.kind = "str"  -> v.text # <<>>
      [] v.kind = "list" -> v.elems # <<>>
      [] v.kind = "dict" -> v.keys # <<>>

-----------------------------------------------------------------------------
(* Elements of the tree ET.fromstring builds. *)

MENUITEM     == <<"M","e","n","u","I","t","e","m">>
SEPARATOR    == <<"S","e","p","a","r","a","t","o","r">>
GRID         == <<"G","r","i","d">>
ROOT         == <<"r","o","o","t">>
BUTTON_CLICK == <<"B","u","t","t","o","n","_","C","l","i","c","k">>
KEY_TAG         == <<"t","a","g">>
KEY_DESCRIPTION == <<"d","e","s","c","r","i","p","t","i","o","n">>
KEY_LABEL       == <<"l","a","b","e","l">>
KEY_DIRECT      == <<"d","i","r","e","c","t">>

\* The attributes of an element: its tag name and item.get(a, '') of each
\* attribute the script reads.
Attrs(name, Header, Tag, Click, ToolTip, Icon) ==
    [name |-> name, Header |-> Header, Tag |-> Tag, Click |-> Click,
     ToolTip |-> ToolTip, Icon |-> Icon]

Elem(a, children) ==
    [name |-> a.name, Header |-> a.Header, Tag |-> a.Tag, Click |-> a.Click,
     ToolTip |-> a.ToolTip, Icon |-> a.Icon, children |-> children]

AttrsOf(e) == Attrs(e.name, e.Header, e.Tag, e.Click, e.ToolTip, e.Icon)

-----------------------------------------------------------------------------
(* parse_menu_item_recursive *)

\* Line 84 with a fault: any Click handler makes a leaf; the Tag is not
\* looked at.
LeafTest_AnyClick(e) == e.Click # <<>> /\ e.Tag # <<>>
LeafTest_NoTag(e) == e.Click = BUTTON_CLICK

\* Line 84: the item has the Click handler and a Tag.
LeafTest(e) == e.Click = BUTTON_CLICK /\ e.Tag # <<>>

\* Line 119: the same test, made again on the raw child.
ChildLeafTest(child) == child.Click = BUTTON_CLICK /\ child.Tag # <<>>

\* Lines 85-95: item_data.
LeafAction(e) ==
    LET item_data == Dict(<<KEY_TAG, KEY_DESCRIPTION>>,
                          <<Str(clean_tag(e.Tag)), Str(clean_header(e.Header))>>)
    IN  IF e.Icon # <<>> THEN DictSet(item_data, KEY_LABEL, Str(e.Icon))
        ELSE item_data

\* Line 98 with a fault: the children are not filtered by kind.
SelectMenuItems_NoFilter(cs) == cs

\* Line 98: [child for child in item if child.tag.endswith('MenuItem')]
RECURSIVE SelectMenuItems(_)
SelectMenuItems(cs) ==
    IF cs = <<>> THEN <<>>
    ELSE IF endswith(Head(cs).name, MENUITEM)
         THEN <<Head(cs)>> \o SelectMenuItems(Tail(cs))
         ELSE SelectMenuItems(Tail(cs))

\* Line 124: subcategories[child_header] = parsed_child
PutSubcategory(subcategories, child_header, parsed_child) ==
    DictSet(subcategories, child_header, parsed_child)

\* Lines 129-130: result = {'direct': leaf_items}; result.update(subcategories)
MergeDirect(leaf_items, subcategories) ==
    DictUpdate(Dict(<<KEY_DIRECT>>, <<List(leaf_items)>>), subcategories)

\* Lines 126-140: the shape of a container's result.
Shape(leaf_items, subcategories) ==
    IF leaf_items # <<>> /\ subcategories.keys # <<>>
    THEN MergeDirect(leaf_items, subcategories)
    ELSE IF leaf_items # <<>> THEN List(leaf_items)
    ELSE IF subcategories.keys # <<>> THEN subcategories
    ELSE None

RECURSIVE parse_menu_item_recursive(_), LoopChildren(_, _, _)

\* Lines 109-124: the loop over children, with its two accumulators.
LoopChildren(children, leaf_items, subcategories) ==
    IF children = <<>> THEN <<leaf_items, subcategories>>
    ELSE LET child == Head(children)
             parsed_child == parse_menu_item_recursive(child)
             child_header == clean_header(child.Header)
         IN  IF parsed_child = None
             THEN LoopChildren(Tail(children), leaf_items, subcategories)
             ELSE IF ChildLeafTest(child)
             THEN LoopChildren(Tail(children),
                               Append(leaf_items, parsed_child), subcategories)
             ELSE IF child_header # <<>>
             THEN LoopChildren(Tail(children), leaf_items,
                      PutSubcategory(subcategories, child_header, parsed_child))
             ELSE LoopChildren(Tail(children), leaf_items, subcategories)

parse_menu_item_recursive(e) ==
    IF endswith(e.name, SEPARATOR) THEN None
    ELSE IF LeafTest(e) THEN LeafAction(e)
    ELSE LET children == SelectMenuItems(e.children)
         IN  IF children = <<>> THEN None
             ELSE LET acc == LoopChildren(children, <<>>, EmptyDict)
                  IN  Shape(acc[1], acc[2])

-----------------------------------------------------------------------------
(* Inputs. *)

\* The pieces clean_tag's arguments are put together from: the ampersand,
\* the tails of the five entities, and a plain character.
Fragments ==
    { <<"&">>, <<"a","m","p",";">>, <<"l","t",";">>, <<"g","t",";">>,
      <<"q","u","o","t",";">>, <<"a","p","o","s",";">>, <<"x">> }

RECURSIVE Concats(_)
Concats(n) ==
    IF n = 0 THEN {<<>>}
    ELSE Concats(n - 1) \cup {f \o s : f \in Fragments, s \in Concats(n - 1)}

TagInputs == Concats(MaxPieces)

\* Element attributes the trees are built from.
Group      == Attrs(MENUITEM, <<"{","x",".","F","n","_","A","}">>, <<>>, <<>>, <<>>, <<>>)
GroupA     == Attrs(MENUITEM, <<"A">>, <<>>, <<>>, <<>>, <<>>)
GroupRefA  == Attrs(MENUITEM, <<"{","x",".","A","}">>, <<>>, <<>>, <<>>, <<>>)
GroupDirect == Attrs(MENUITEM, KEY_DIRECT, <<>>, <<>>, <<>>, <<>>)
GroupNoHeader == Attrs(MENUITEM, <<>>, <<>>, <<>>, <<"t","i","p">>, <<>>)
Leaf1      == Attrs(MENUITEM, <<"B">>, <<"a","&","l","t",";","b">>, BUTTON_CLICK, <<>>, <<>>)
Leaf2      == Attrs(MENUITEM, <<"{","x",".","S","i","n","H","}">>, <<"t">>, BUTTON_CLICK,
                    <<"t","i","p">>, <<"i">>)
NoTag      == Attrs(MENUITEM, <<"D">>, <<>>, BUTTON_CLICK, <<"t","i","p">>, <<"i">>)
OtherClick == Attrs(MENUITEM, <<"E">>, <<"t">>, <<"G","o">>, <<>>, <<>>)
Sep        == Attrs(SEPARATOR, <<"S">>, <<"t">>, BUTTON_CLICK, <<>>, <<>>)
Widget     == Attrs(GRID, <<"G">>, <<"t">>, BUTTON_CLICK, <<>>, <<>>)
Panel      == Attrs(GRID, <<"P">>, <<>>, <<>>, <<>>, <<>>)

ItemPalette  == {Group, Leaf1, Leaf2, NoTag, OtherClick, Sep, Widget, Panel}
MergePalette == {GroupA, GroupRefA, GroupDirect, GroupNoHeader, Leaf1, Leaf2}
DocPalette   == {Group, GroupNoHeader, Leaf1, Widget}
DocNames     == {a.name : a \in DocPalette}

NoElement == Elem(Attrs(<<>>, <<>>, <<>>, <<>>, <<>>, <<>>), <<>>)

\* Number of elements of a tree.
RECURSIVE Count(_), CountAll(_)
Count(e) == 1 + CountAll(e.children)
CountAll(es) == IF es = <<>> THEN 0 ELSE Count(Head(es)) + CountAll(Tail(es))

\* Number of elements on the path from e down its last children: the
\* elements still open when e is built in document order.
RECURSIVE OpenDepth(_)
OpenDepth(e) ==
    IF e.children = <<>> THEN 1
    ELSE 1 + OpenDepth(e.children[Len(e.children)])

\* e with child appended to the open element at depth d (e itself at 1).
RECURSIVE AppendAt(_, _, _)
AppendAt(e, d, child) ==
    IF d = 1 THEN [e EXCEPT !.children = Append(@, child)]
    ELSE LET n == Len(e.children)
         IN  [e EXCEPT !.children[n] = AppendAt(e.children[n], d - 1, child)]

-----------------------------------------------------------------------------
(* clean_tag called on every input. *)

InitTag ==
    /\ pc = "clean_tag"
    /\ tag \in TagInputs
    /\ tag_result = <<>>
    /\ item = NoElement /\ item_result = None
    /\ xaml_content = <<>> /\ root = NoElement /\ idx = 0
    /\ result = EmptyDict /\ returned = None

CallCleanTag ==
    /\ pc = "clean_tag"
    /\ tag_result' = clean_tag(tag)
    /\ pc' = "done"
    /\ UNCHANGED <<tag, item, item_result, xaml_content, root, idx, result,
                   returned>>

NextTag == CallCleanTag

SpecTag == InitTag /\ [][NextTag]_vars

-----------------------------------------------------------------------------
(* parse_menu_item_recursive called on every element tree: the tree is     *)
(* built element by element in document order, then the call is made.      *)

InitItemOver(P) ==
    /\ pc = "build"
    /\ item \in {Elem(a, <<>>) : a \in P}
    /\ item_result = None
    /\ tag = <<>> /\ tag_result = <<>>
    /\ xaml_content = <<>> /\ root = NoElement /\ idx = 0
    /\ result = EmptyDict /\ returned = None

AddElement(P, n) ==
    /\ pc = "build"
    /\ Count(item) < n
    /\ \E a \in P, d \in 1..OpenDepth(item) :
           item' = AppendAt(item, d, Elem(a, <<>>))
    /\ UNCHANGED <<pc, tag, tag_result, item_result, xaml_content, root, idx,
                   result, returned>>

CallParseItem ==
    /\ pc = "build"
    /\ item_result' = parse_menu_item_recursive(item)
    /\ pc' = "done"
    /\ UNCHANGED <<tag, tag_result, item, xaml_content, root, idx, result,
                   returned>>

InitItem == InitItemOver(ItemPalette)
AddItemElement == AddElement(ItemPalette, MaxNodes)
NextItem == AddItemElement \/ CallParseItem
SpecItem == InitItem /\ [][NextItem]_vars

InitMerge == InitItemOver(MergePalette)
AddMergeElement == AddElement(MergePalette, MaxMergeNodes)
NextMerge == AddMergeElement \/ CallParseItem
SpecMerge == InitMerge /\ [][NextMerge]_vars

-----------------------------------------------------------------------------
(* The markup parse_xaml_insert_menu is given: a sequence of start tags    *)
(* (with their attributes) and end tags.                                   *)

Open(a) ==
    [kind |-> "open", name |-> a.name, Header |-> a.Header, Tag |-> a.Tag,
     Click |-> a.Click, ToolTip |-> a.ToolTip, Icon |-> a.Icon]
Close(name) ==
    [kind |-> "close", name |-> name, Header |-> <<>>, Tag |-> <<>>,
     Click |-> <<>>, ToolTip |-> <<>>, Icon |-> <<>>]

\* Line 146: the content wrapped in a root element.
Wrap(content) ==
    <<Open(Attrs(ROOT, <<>>, <<>>, <<>>, <<>>, <<>>))>> \o content
        \o <<Close(ROOT)>>

\* Line 148, ET.fromstring: the elements open so far are kept on a stack;
\* an end tag must close the innermost one, the document ends with the end
\* tag of its first element, and anything else raises ParseError.
\* The result is [ok, root].
RECURSIVE Feed(_, _)
Feed(tokens, stack) ==
    IF tokens = <<>> THEN [ok |-> FALSE, root |-> NoElement]
    ELSE LET t == Head(tokens)
             n == Len(stack)
         IN  IF t.kind = "open"
             THEN Feed(Tail(tokens), Append(stack, Elem(AttrsOf(t), <<>>)))
             ELSE IF n = 0 \/ stack[n].name # t.name
             THEN [ok |-> FALSE, root |-> NoElement]
             ELSE IF n = 1
             THEN [ok |-> Tail(tokens) = <<>>,
                   root |-> IF Tail(tokens) = <<>> THEN stack[1] ELSE NoElement]
             ELSE Feed(Tail(tokens),
                       [SubSeq(stack, 1, n - 1) EXCEPT
                           ![n - 1].children = Append(@, stack[n])])

fromstring(text) == Feed(text, <<>>)

\* Lines 154-167 with a fault: the raw header is the key; the kind of the
\* child is not looked at.
SectionStep_RawKey(res, menu_item) ==
    IF ~endswith(menu_item.name, MENUITEM) THEN res
    ELSE IF menu_item.Header = <<>> THEN res
    ELSE LET parsed_section == parse_menu_item_recursive(menu_item)
         IN  IF Truthy(parsed_section)
             THEN DictSet(res, menu_item.Header, parsed_section)
             ELSE res
SectionStep_NoKindCheck(res, menu_item) ==
    IF menu_item.Header = <<>> THEN res
    ELSE LET section_key == clean_header(menu_item.Header)
             parsed_section == parse_menu_item_recursive(menu_item)
         IN  IF Truthy(parsed_section)
             THEN DictSet(res, section_key, parsed_section)
             ELSE res

\* Lines 154-167: one pass of the loop over the children of the root; the
\* value is the dict after it.
SectionStep(res, menu_item) ==
    IF ~endswith(menu_item.name, MENUITEM) THEN res
    ELSE IF menu_item.Header = <<>> THEN res
    ELSE LET section_key == clean_header(menu_item.Header)
             parsed_section == parse_menu_item_recursive(menu_item)
         IN  IF Truthy(parsed_section)
             THEN DictSet(res, section_key, parsed_section)
             ELSE res

\* Lines 171-176 with a fault: the dict built so far is returned.
ExceptReturn_Partial(res) == res

\* Lines 171-176: what the two except clauses return; res is the dict built
\* so far.
ExceptReturn(res) == EmptyDict

\* The names of the elements the tokens leave open, innermost last, or
\* <<<<"!">>>> once an end tag has closed anything but the innermost one.
RECURSIVE OpenNames(_, _)
OpenNames(tokens, names) ==
    IF tokens = <<>> THEN names
    ELSE LET t == Head(tokens)
             n == Len(names)
         IN  IF t.kind = "open"
             THEN OpenNames(Tail(tokens), Append(names, t.name))
             ELSE IF n = 0 \/ names[n] # t.name THEN << <<"!">> >>
             ELSE OpenNames(Tail(tokens), SubSeq(names, 1, n - 1))

\* Number of start tags.
RECURSIVE Opens(_)
Opens(tokens) ==
    IF tokens = <<>> THEN 0
    ELSE (IF Head(tokens).kind = "open" THEN 1 ELSE 0) + Opens(Tail(tokens))

-----------------------------------------------------------------------------
(* parse_xaml_insert_menu: the content is written tag by tag, then the     *)
(* call is made.                                                           *)

Init ==
    /\ pc = "input"
    /\ xaml_content = <<>>
    /\ root = NoElement /\ idx = 0
    /\ result = EmptyDict /\ returned = None
    /\ tag = <<>> /\ tag_result = <<>>
    /\ item = NoElement /\ item_result = None

\* One more tag of the content, as long as no end tag has been misplaced.
WriteTag ==
    /\ pc = "input"
    /\ OpenNames(xaml_content, <<>>) # << <<"!">> >>
    /\ \/ /\ Opens(xaml_content) < MaxElems
          /\ \E a \in DocPalette : xaml_content' = Append(xaml_content, Open(a))
       \/ \E n \in DocNames : xaml_content' = Append(xaml_content, Close(n))
    /\ UNCHANGED <<pc, tag, tag_result, item, item_result, root, idx, result,
                   returned>>

\* Lines 144-150: the content parses.
Parsed ==
    /\ pc = "input"
    /\ fromstring(Wrap(xaml_content)).ok
    /\ root' = fromstring(Wrap(xaml_content)).root
    /\ result' = EmptyDict
    /\ idx' = 0
    /\ pc' = "loop"
    /\ UNCHANGED <<tag, tag_result, item, item_result, xaml_content, returned>>

\* Lines 148, 171-173: ET.fromstring raises ParseError.
ParseErrorCaught ==
    /\ pc = "input"
    /\ ~fromstring(Wrap(xaml_content)).ok
    /\ returned' = ExceptReturn(result)
    /\ pc' = "ParseError"
    /\ UNCHANGED <<tag, tag_result, item, item_result, xaml_content, root, idx,
                   result>>

\* Lines 153-167: the next child of the root.
Iterate ==
    /\ pc = "loop"
    /\ idx < Len(root.children)
    /\ result' = SectionStep(result, root.children[idx + 1])
    /\ idx' = idx + 1
    /\ UNCHANGED <<pc, tag, tag_result, item, item_result, xaml_content, root,
                   returned>>

\* Lines 164-165, 174-176: the print or the recursive call of a section
\* raises (a closed stdout, a RecursionError) and the last clause catches it.
ExceptionCaught ==
    /\ pc = "loop"
    /\ idx < Len(root.children)
    /\ endswith(root.children[idx + 1].name, MENUITEM)
    /\ root.children[idx + 1].Header # <<>>
    /\ returned' = ExceptReturn(result)
    /\ pc' = "Exception"
    /\ UNCHANGED <<tag, tag_result, item, item_result, xaml_content, root, idx,
                   result>>

\* Line 169.
Return ==
    /\ pc = "loop"
    /\ idx = Len(root.children)
    /\ returned' = result
    /\ pc' = "done"
    /\ UNCHANGED <<tag, tag_result, item, item_result, xaml_content, root, idx,
                   result>>

Next ==
    WriteTag \/ Parsed \/ ParseErrorCaught \/ Iterate \/ ExceptionCaught \/ Return

Spec == Init /\ [][Next]_vars

-----------------------------------------------------------------------------
(* The vocabulary of the properties. *)

\* The leaf test as the specification words it.
IsLeafNode(e) == e.Click = BUTTON_CLICK /\ clean_tag(e.Tag) # <<>>
IsMenuItemKind(e) == endswith(e.name, MENUITEM)
IsSeparator(e) == endswith(e.name, SEPARATOR)

\* v is a LeafAction: a mapping from tag and description, and label at
\* most, to strings.
IsLeafAction(v) ==
    /\ v.kind = "dict"
    /\ Len(v.keys) \in {2, 3}
    /\ SubSeq(v.keys, 1, 2) = <<KEY_TAG, KEY_DESCRIPTION>>
    /\ Len(v.keys) = 3 => v.keys[3] = KEY_LABEL
    /\ \A i \in 1..Len(v.elems) : v.elems[i].kind = "str"

\* v is a Category: a sequence of LeafActions, or a mapping whose values
\* are sequences and mappings.
IsCategory(v) ==
    \/ v.kind = "list" /\ \A i \in 1..Len(v.elems) : IsLeafAction(v.elems[i])
    \/ /\ v.kind = "dict"
       /\ \A i \in 1..Len(v.elems) : v.elems[i].kind \in {"list", "dict"}
       /\ ~IsLeafAction(v)

\* The single left-to-right pass that unescapes the five entities.
RECURSIVE Unescape(_)
Unescape(s) ==
    IF s = <<>> THEN <<>>
    ELSE IF startswith(s, LT)   THEN <<"<">>  \o Unescape(From(s, Len(LT) + 1))
    ELSE IF startswith(s, GT)   THEN <<">">>  \o Unescape(From(s, Len(GT) + 1))
    ELSE IF startswith(s, AMP)  THEN <<"&">>  \o Unescape(From(s, Len(AMP) + 1))
    ELSE IF startswith(s, QUOT) THEN <<"\"">> \o Unescape(From(s, Len(QUOT) + 1))
    ELSE IF startswith(s, APOS) THEN <<"'">>  \o Unescape(From(s, Len(APOS) + 1))
    ELSE <<Head(s)>> \o Unescape(Tail(s))

\* The menu-item children of e that are leaf actions, and those that are
\* retained as subcategories, both in document order.
LeafChildren(e) ==
    SelectSeq(e.children, LAMBDA c : IsMenuItemKind(c) /\ IsLeafNode(c))
GroupChildren(e) ==
    SelectSeq(e.children,
              LAMBDA c : /\ IsMenuItemKind(c) /\ ~IsLeafNode(c)
                         /\ clean_header(c.Header) # <<>>
                         /\ parse_menu_item_recursive(c) # None)

\* The classifications of a sequence of elements.
ParsedAll(es) == [i \in 1..Len(es) |-> parse_menu_item_recursive(es[i])]

\* The cleaned headers of a sequence of elements, each once, in the order
\* they are first seen.
RECURSIVE FirstSeen(_, _)
FirstSeen(es, seen) ==
    IF es = <<>> THEN seen
    ELSE LET h == clean_header(Head(es).Header)
         IN  IF \E i \in 1..Len(seen) : seen[i] = h
             THEN FirstSeen(Tail(es), seen)
             ELSE FirstSeen(Tail(es), Append(seen, h))

\* A container: an element the classifier neither skips as a separator nor
\* returns as a leaf action.
IsContainer(e) == ~IsSeparator(e) /\ ~IsLeafNode(e)

-----------------------------------------------------------------------------
\* C1 (as stated): for every node N, parse_menu_item_recursive(N) is a
\* LeafAction, with label iff Icon is non-empty, iff N's Click is
\* 'Button_Click' and clean_tag(N.Tag) is non-empty; otherwise it is a
\* Category or null.
C1_LeafDetection ==
    pc = "done" =>
        /\ IsLeafAction(item_result) <=> IsLeafNode(item)
        /\ IsLeafAction(item_result) =>
               (HasKey(item_result, KEY_LABEL) <=> item.Icon # <<>>)
        /\ ~IsLeafNode(item) => (item_result = None \/ IsCategory(item_result))

\* C1 (amended): the same for every node that is not a Separator element;
\* a Separator element classifies to null whatever its attributes.
C1_LeafDetectionNonSeparator ==
    pc = "done" =>
        /\ ~IsSeparator(item) =>
               /\ IsLeafAction(item_result) <=> IsLeafNode(item)
               /\ IsLeafAction(item_result) =>
                      (HasKey(item_result, KEY_LABEL) <=> item.Icon # <<>>)
               /\ ~IsLeafNode(item) =>
                      (item_result = None \/ IsCategory(item_result))
        /\ IsSeparator(item) => item_result = None

\* C1, reached: a leaf action with an icon and with children has been
\* classified.
C1_Witness ==
    /\ pc = "done" /\ ~IsSeparator(item) /\ IsLeafNode(item)
    /\ item.Icon # <<>> /\ item.children # <<>>
    /\ IsLeafAction(item_result) /\ HasKey(item_result, KEY_LABEL)

\* C5: for every input s, clean_tag(s) is the single-pass unescape of s:
\* text produced by unescaping &amp; is never unescaped a second time.
C5_SinglePassUnescape ==
    pc = "done" => tag_result = Unescape(tag)

-----------------------------------------------------------------------------
\* e without the i-th of its children.
RemoveChild(e, i) ==
    [e EXCEPT !.children = SubSeq(@, 1, i - 1) \o SubSeq(@, i + 1, Len(@))]

\* e with every Separator element and every element that is not of the
\* menu-item kind deleted from its descendants, at every depth.
RECURSIVE Strip(_), StripAll(_)
Strip(e) == [e EXCEPT !.children = StripAll(@)]
StripAll(es) ==
    IF es = <<>> THEN <<>>
    ELSE IF IsMenuItemKind(Head(es)) /\ ~IsSeparator(Head(es))
         THEN <<Strip(Head(es))>> \o StripAll(Tail(es))
         ELSE StripAll(Tail(es))

\* An element that fails the leaf test and has no menu-item children.
IsBarren(e) ==
    ~IsLeafNode(e) /\ \A i \in 1..Len(e.children) : ~IsMenuItemKind(e.children[i])

\* C6: for every node N, parse_menu_item_recursive(N) equals its result on
\* N with all Separator elements and all elements not of the menu-item kind
\* deleted at every depth: they never appear in the output and leave the
\* order of the remaining leaf actions and subcategories as it is.
C6_SeparatorExclusion ==
    pc = "done" => item_result = parse_menu_item_recursive(Strip(item))

\* C6, reached: a container has been classified to a sequence of two leaf actions with
\* a Separator between the two menu items.
C6_Witness ==
    /\ pc = "done" /\ IsContainer(item)
    /\ item_result.kind = "list" /\ Len(item_result.elems) = 2
    /\ \E i, j, k \in 1..Len(item.children) :
           /\ i < j /\ j < k
           /\ IsMenuItemKind(item.children[i])
           /\ IsSeparator(item.children[j])
           /\ IsMenuItemKind(item.children[k])

\* C7: every node that fails the leaf test and has no menu-item children
\* classifies to null, whatever its Header, ToolTip and Icon, and adds no
\* key and no list element to its parent's result: the parent classifies
\* as it does without that child.
C7_Pruning ==
    pc = "done" =>
        /\ IsBarren(item) => item_result = None
        /\ \A i \in 1..Len(item.children) :
               IsBarren(item.children[i]) =>
                   /\ parse_menu_item_recursive(item.children[i]) = None
                   /\ item_result = parse_menu_item_recursive(RemoveChild(item, i))

\* C7, reached: a container with a non-null result has a menu-item child that has a
\* Header, a ToolTip and an Icon, fails the leaf test and has no menu-item
\* children.
C7_Witness ==
    /\ pc = "done" /\ item_result # None /\ IsContainer(item)
    /\ \E i \in 1..Len(item.children) :
           LET c == item.children[i]
           IN  /\ IsMenuItemKind(c) /\ IsBarren(c)
               /\ c.Header # <<>> /\ c.ToolTip # <<>> /\ c.Icon # <<>>

-----------------------------------------------------------------------------
\* C2: when several non-leaf menu-item children of a node share a cleaned
\* header and each classifies to a non-null Category, the node's result
\* maps that header to the classification of the first of them.
C2_FirstOccurrenceWins ==
    (pc = "done" /\ IsContainer(item)) =>
        LET groups == GroupChildren(item)
        IN  \A i \in 1..Len(groups) :
                LET h == clean_header(groups[i].Header)
                IN  (/\ \A j \in 1..(i - 1) : clean_header(groups[j].Header) # h
                     /\ \E j \in (i + 1)..Len(groups) :
                            clean_header(groups[j].Header) = h)
                    => /\ item_result.kind = "dict"
                       /\ HasKey(item_result, h)
                       /\ Get(item_result, h) = parse_menu_item_recursive(groups[i])

\* C3: the shape of a container's result: {direct: leafItems,
\* ...subcategories} when both are non-empty, the sequence leafItems when
\* only it is, the mapping subcategories when only it is, null when
\* neither; direct is in document order and the subcategory keys are in
\* first-seen order.
C3_ShapeDecision ==
    (pc = "done" /\ IsContainer(item)) =>
        LET leafItems == ParsedAll(LeafChildren(item))
            groups == GroupChildren(item)
            keys == FirstSeen(groups, <<>>)
            Keyed(r) ==
                \A i \in 1..Len(keys) :
                    /\ HasKey(r, keys[i])
                    /\ \E j \in 1..Len(groups) :
                           /\ clean_header(groups[j].Header) = keys[i]
                           /\ Get(r, keys[i]) = parse_menu_item_recursive(groups[j])
        IN  /\ (leafItems # <<>> /\ keys # <<>>) =>
                   /\ item_result.kind = "dict"
                   /\ item_result.keys = <<KEY_DIRECT>> \o keys
                   /\ item_result.elems[1] = List(leafItems)
                   /\ Keyed(item_result)
            /\ (leafItems # <<>> /\ keys = <<>>) => item_result = List(leafItems)
            /\ (leafItems = <<>> /\ keys # <<>>) =>
                   /\ item_result.kind = "dict"
                   /\ item_result.keys = keys
                   /\ Keyed(item_result)
            /\ (leafItems = <<>> /\ keys = <<>>) => item_result = None

\* C4: in the result of a mixed node the key 'direct' holds the sequence of
\* the node's LeafActions, whatever the headers of its subcategories, and
\* every other key maps to a nested Category.
C4_ReservedDirect ==
    (/\ pc = "done" /\ IsContainer(item)
     /\ LeafChildren(item) # <<>> /\ GroupChildren(item) # <<>>) =>
        /\ item_result.kind = "dict"
        /\ HasKey(item_result, KEY_DIRECT)
        /\ Get(item_result, KEY_DIRECT) = List(ParsedAll(LeafChildren(item)))
        /\ \A i \in 1..Len(item_result.keys) :
               item_result.keys[i] # KEY_DIRECT => IsCategory(item_result.elems[i])

-----------------------------------------------------------------------------
\* A direct child of the root gets a key: it is a menu item, its cleaned
\* header is non-empty and it classifies to something.
GetsKey(c) ==
    /\ IsMenuItemKind(c)
    /\ clean_header(c.Header) # <<>>
    /\ parse_menu_item_recursive(c) # None

\* The content is well-formed: every end tag closes the innermost open
\* element and none is left open.
WellFormed(content) == OpenNames(content, <<>>) = <<>>

\* C8: the pass over the root's children puts a key into the document for
\* a child exactly when the child is a menu item with a non-empty cleaned
\* header and a non-null classification; the key is clean_header(Header),
\* the value the classification (a bare LeafAction for a child that passes
\* the leaf test); any other child leaves the document as it is; the
\* document is what the call returns.
C8_RootLevelPass ==
    [][ /\ (pc = "loop" /\ idx' = idx + 1) =>
            LET c == root.children[idx + 1]
                key == clean_header(c.Header)
            IN  IF GetsKey(c)
                THEN /\ HasKey(result', key)
                     /\ Get(result', key) = parse_menu_item_recursive(c)
                     /\ IsLeafNode(c) => IsLeafAction(Get(result', key))
                     /\ \A i \in 1..Len(result.keys) :
                            /\ HasKey(result', result.keys[i])
                            /\ result.keys[i] # key =>
                                   Get(result', result.keys[i]) = result.elems[i]
                     /\ \A i \in 1..Len(result'.keys) :
                            result'.keys[i] # key => HasKey(result, result'.keys[i])
                ELSE result' = result
        /\ (pc = "loop" /\ pc' = "done") => returned' = result
      ]_vars

\* C8, reached: a document has been returned whose root has a child that passes the
\* leaf test, stored bare under its header, a menu item with an empty
\* header that classifies to something, and a child of another kind.
C8_Witness ==
    /\ pc = "done"
    /\ \E i \in 1..Len(root.children) :
           LET c == root.children[i]
           IN  /\ GetsKey(c) /\ IsLeafNode(c)
               /\ HasKey(returned, clean_header(c.Header))
               /\ IsLeafAction(Get(returned, clean_header(c.Header)))
    /\ \E i \in 1..Len(root.children) :
           LET c == root.children[i]
           IN  /\ IsMenuItemKind(c) /\ c.Header = <<>>
               /\ parse_menu_item_recursive(c) # None
    /\ \E i \in 1..Len(root.children) : ~IsMenuItemKind(root.children[i])

RECURSIVE DocLeaves(_), DocLeavesAll(_)
DocLeaves(v) == IF IsLeafAction(v) THEN <<v>> ELSE DocLeavesAll(v.elems)
DocLeavesAll(vs) ==
    IF vs = <<>> THEN <<>> ELSE DocLeaves(Head(vs)) \o DocLeavesAll(Tail(vs))

\* The LeafActions of the leaf-action menu items at or under e whose
\* ancestors, from e down, are menu items with a non-empty cleaned header.
RECURSIVE Covered(_), CoveredAll(_)
Covered(e) ==
    IF ~IsMenuItemKind(e) THEN <<>>
    ELSE (IF IsLeafNode(e) THEN <<LeafAction(e)>> ELSE <<>>)
         \o (IF clean_header(e.Header) # <<>> THEN CoveredAll(e.children)
             ELSE <<>>)
CoveredAll(es) ==
    IF es = <<>> THEN <<>> ELSE Covered(Head(es)) \o CoveredAll(Tail(es))

\* ... over the sections of the document: a section's own header counts.
RECURSIVE CoveredSections(_)
CoveredSections(es) ==
    IF es = <<>> THEN <<>>
    ELSE (IF clean_header(Head(es).Header) # <<>> THEN Covered(Head(es))
          ELSE <<>>) \o CoveredSections(Tail(es))

Occurrences(seq, x) == Cardinality({i \in 1..Len(seq) : seq[i] = x})

=============================================================================
